---------------------------- MODULE Spec2Model ----------------------------
(* A model of the file integrity monitor: the exclusion filter          *)
(* (ignore.py), the snapshot builder, store and diff engine              *)
(* (baseline.py), the report sink (reporter.py) and the driver           *)
(* (main.py).                                                            *)
(*                                                                       *)
(* A path, a pattern and a line of text are sequences of one-character   *)
(* strings.  A modification time is a whole number of tenths of a second *)
(* (st_mtime is a float; int() drops the fraction).  A digest is the     *)
(* number of the content it is the SHA-256 of.                           *)
EXTENDS Integers, Sequences, FiniteSets, TLC

VARIABLES
    rootExists,   \* the root directory exists
    tree,         \* the files under the root: path -> entry
    baseline_file,\* --baseline: "default", "inside" (ROOT/bl) or "outside" the root
    ignore_csv,   \* --ignore: a string, or NoString
    fimignore,    \* the text of ROOT/.fimignore, or NoString
    blFile,       \* the content of the baseline file
    report,       \* the content of the report file: a sequence of tokens
    now,          \* time.time() of the last save
    cmd,          \* the command that runs or ran last, with its arguments
    pc,           \* where the command is
    patterns,     \* the patterns of the running command
    old,          \* the snapshot the next comparison starts from
    new,          \* the snapshot of the last walk_and_hash
    changes,      \* the ChangeSet of the last compare_snapshots
    run,          \* the runs of the running command so far
    pending,      \* the text that the save begun last is to leave in its file
    saved,        \* the baseline file and the report file as the command found them
    last          \* the driver: "accepted" after an init or accept, until something
                  \* else happens; walk_and_hash alone: what reading each file does

vars == <<rootExists, tree, baseline_file, ignore_csv, fimignore, blFile, report,
          now, cmd, pc, patterns, old, new, changes, run, pending, saved, last>>

-----------------------------------------------------------------------------
(* Text.                                                                   *)

\* ord(): the code points of the characters the model uses
CodePoint(c) ==
    CASE c = " " -> 32  [] c = "!" -> 33  [] c = "#" -> 35  [] c = "*" -> 42
      [] c = "," -> 44  [] c = "." -> 46  [] c = "/" -> 47  [] c = "?" -> 63
      [] c = "[" -> 91  [] c = "]" -> 93  [] c = "_" -> 95  [] c = "a" -> 97
      [] c = "b" -> 98  [] c = "d" -> 100 [] c = "e" -> 101 [] c = "f" -> 102
      [] c = "g" -> 103 [] c = "i" -> 105 [] c = "j" -> 106 [] c = "l" -> 108
      [] c = "m" -> 109 [] c = "n" -> 110 [] c = "o" -> 111 [] c = "r" -> 114
      [] c = "s" -> 115

\* str.__lt__: s sorts before t
StrLess(s, t) ==
    \E k \in 1..(Len(s) + 1) :
        /\ k <= Len(t)
        /\ \A i \in 1..(k - 1) : s[i] = t[i]
        /\ (k = Len(s) + 1 \/ CodePoint(s[k]) < CodePoint(t[k]))

\* sorted(S) of a set of strings
RECURSIVE sorted(_)
sorted(S) ==
    IF S = {} THEN <<>>
    ELSE LET m == CHOOSE x \in S : \A y \in S \ {x} : StrLess(x, y)
         IN  <<m>> \o sorted(S \ {m})

Range(q) == {q[i] : i \in DOMAIN q}

DEFAULT_BASELINE ==
    <<".", "f", "i", "m", "_", "b", "a", "s", "e", "l", "i", "n", "e",
      ".", "j", "s", "o", "n">>

-----------------------------------------------------------------------------
(* ignore.py                                                               *)

\* fnmatch.translate, "[": the index of the "]" closing the class opened at
\* pat[j], or 0 when none closes it (the "[" is then a literal)
ClassEnd(pat, j) ==
    LET n  == Len(pat)
        a  == j + 1
        a1 == IF a <= n /\ pat[a] = "!" THEN a + 1 ELSE a
        a2 == IF a1 <= n /\ pat[a1] = "]" THEN a1 + 1 ELSE a1
        ks == {k \in a2..n : pat[k] = "]"}
    IN  IF ks = {} THEN 0 ELSE CHOOSE k \in ks : \A k2 \in ks : k <= k2

\* c is in the class pat[j..k] ("[seq]" or "[!seq]"; the model's patterns hold no
\* "-", so no ranges)
InClass(c, pat, j, k) ==
    LET neg   == pat[j + 1] = "!"
        first == IF neg THEN j + 2 ELSE j + 1
        hit   == \E x \in first..(k - 1) : pat[x] = c
    IN  IF neg THEN ~hit ELSE hit

\* fnmatch.fnmatchcase: name[i..] matches pat[j..]
RECURSIVE MatchFrom(_, _, _, _)
MatchFrom(name, i, pat, j) ==
    IF j > Len(pat) THEN i > Len(name)
    ELSE IF pat[j] = "*"
         THEN MatchFrom(name, i, pat, j + 1)
              \/ (i <= Len(name) /\ MatchFrom(name, i + 1, pat, j))
    ELSE IF pat[j] = "?"
         THEN i <= Len(name) /\ MatchFrom(name, i + 1, pat, j + 1)
    ELSE IF pat[j] = "[" /\ ClassEnd(pat, j) # 0
         THEN /\ i <= Len(name)
              /\ InClass(name[i], pat, j, ClassEnd(pat, j))
              /\ MatchFrom(name, i + 1, pat, ClassEnd(pat, j) + 1)
    ELSE i <= Len(name) /\ name[i] = pat[j] /\ MatchFrom(name, i + 1, pat, j + 1)

\* fnmatch.fnmatch on a POSIX system (normcase changes nothing)
fnmatch(name, pat) == MatchFrom(name, 1, pat, 1)

\* Path(relpath).name: the final segment
PathName(relpath) ==
    LET slashes == {i \in 1..Len(relpath) : relpath[i] = "/"}
        lastSl  == IF slashes = {} THEN 0
                   ELSE CHOOSE i \in slashes : \A k \in slashes : k <= i
    IN  SubSeq(relpath, lastSl + 1, Len(relpath))


\* is_ignored's loop over patterns[k..]: the first pattern that matches decides
RECURSIVE IgnoredFrom(_, _, _)
IgnoredFrom(relpath, pats, k) ==
    IF k > Len(pats) THEN FALSE
    ELSE IF fnmatch(PathName(relpath), pats[k]) \/ fnmatch(relpath, pats[k]) THEN TRUE
    ELSE IgnoredFrom(relpath, pats, k + 1)

\* is_ignored with the second test of line 52 lost: the name alone is matched
RECURSIVE IgnoredFromNameOnly(_, _, _)
IgnoredFromNameOnly(relpath, pats, k) ==
    IF k > Len(pats) THEN FALSE
    ELSE IF fnmatch(PathName(relpath), pats[k]) THEN TRUE
    ELSE IgnoredFromNameOnly(relpath, pats, k + 1)

is_ignored_NameOnly(relpath, pats) == IgnoredFromNameOnly(relpath, pats, 1)

is_ignored(relpath, pats) == IgnoredFrom(relpath, pats, 1)

\* None, where a string may stand
NoString == <<"None">>

\* str.split(sep): the pieces between the separators
RECURSIVE Split(_, _)
Split(text, sep) ==
    LET at == {i \in 1..Len(text) : text[i] = sep}
    IN  IF at = {} THEN <<text>>
        ELSE LET i == CHOOSE x \in at : \A y \in at : x <= y
             IN  <<SubSeq(text, 1, i - 1)>> \o Split(SubSeq(text, i + 1, Len(text)), sep)

\* str.splitlines: the lines of a text, without a last empty one
SplitLines(text) ==
    LET parts == Split(text, "\n")
    IN  IF parts[Len(parts)] = <<>> THEN SubSeq(parts, 1, Len(parts) - 1) ELSE parts

\* str.strip: without the leading and trailing blanks
RECURSIVE Strip(_)
Strip(s) ==
    IF s = <<>> THEN s
    ELSE IF s[1] = " " THEN Strip(Tail(s))
    ELSE IF s[Len(s)] = " " THEN Strip(SubSeq(s, 1, Len(s) - 1))
    ELSE s

\* the patterns of the lines of .fimignore: stripped, no empty line, no comment
RECURSIVE FilePatterns(_)
FilePatterns(lines) ==
    IF lines = <<>> THEN <<>>
    ELSE LET line == Strip(Head(lines))
         IN  IF line = <<>> \/ line[1] = "#" THEN FilePatterns(Tail(lines))
             ELSE <<line>> \o FilePatterns(Tail(lines))

\* the patterns of the parts of --ignore: stripped, no empty part
RECURSIVE CsvPatterns(_)
CsvPatterns(parts) ==
    IF parts = <<>> THEN <<>>
    ELSE LET pat == Strip(Head(parts))
         IN  IF pat = <<>> THEN CsvPatterns(Tail(parts))
             ELSE <<pat>> \o CsvPatterns(Tail(parts))

\* load_ignore_patterns(root, ignore_from): ignoreFile is the text of
\* ROOT/.fimignore, or NoString when there is none
load_ignore_patterns(ignoreFile, ignore_from) ==
    (IF ignoreFile # NoString THEN FilePatterns(SplitLines(ignoreFile)) ELSE <<>>)
    \o (IF ignore_from # NoString /\ ignore_from # <<>>
        THEN CsvPatterns(Split(ignore_from, ",")) ELSE <<>>)
    \o <<DEFAULT_BASELINE>>

-----------------------------------------------------------------------------
(* baseline.py                                                             *)

\* FileInfo.__dict__
FileInfo(sha256, size, mtime) == [sha256 |-> sha256, size |-> size, mtime |-> mtime]

NoFile == [kind |-> "none", sha256 |-> 0, size |-> 0, mtime |-> 0]
Dir    == [kind |-> "dir", sha256 |-> 0, size |-> 0, mtime |-> 0]
File(sha256, size, mtime) ==
    [kind |-> "file", sha256 |-> sha256, size |-> size, mtime |-> mtime]

\* int(x) of a time in tenths of a second: whole seconds, towards zero
IntTrunc(m) == IF m >= 0 THEN m \div 10 ELSE -((-m) \div 10)

EmptySnapshot == [p \in {} |-> NoFile]

\* walk_and_hash's loop over the entries rglob still has to yield (in scandir's
\* order, which the result does not depend on). fault[p] is what reading p does:
\* "ok"; "nostat", the stat of p.is_file() (line 37, outside the try) is refused,
\* which Path.is_file passes on as a PermissionError; "perm", p.stat() or the open of
\* sha256_file raises PermissionError inside the try; "gone", they raise
\* FileNotFoundError there.
RECURSIVE WalkLoop(_, _, _, _, _)
WalkLoop(listing, todo, pats, fault, snapshot) ==
    IF todo = {} THEN [raised |-> FALSE, snapshot |-> snapshot]
    ELSE LET p    == CHOOSE x \in todo : TRUE
             rest == todo \ {p}
         IN  IF fault[p] = "nostat"
                 THEN [raised |-> TRUE, snapshot |-> snapshot]
             ELSE IF listing[p].kind # "file"
                 THEN WalkLoop(listing, rest, pats, fault, snapshot)
             ELSE IF is_ignored(p, pats)
                 THEN WalkLoop(listing, rest, pats, fault, snapshot)
             ELSE IF fault[p] \in {"perm", "gone"}
                 THEN WalkLoop(listing, rest, pats, fault, snapshot)
             ELSE WalkLoop(listing, rest, pats, fault,
                           [q \in DOMAIN snapshot \cup {p} |->
                               IF q = p
                               THEN FileInfo(listing[p].sha256, listing[p].size,
                                             listing[p].mtime)
                               ELSE snapshot[q]])

\* walk_and_hash(root, ignore_patterns) over the entries under the root
walk_and_hash(listing, pats, fault) ==
    WalkLoop(listing, DOMAIN listing, pats, fault, EmptySnapshot)

\* compare_snapshots' loop over sorted(old_keys & new_keys)[k..]
RECURSIVE CompareLoop(_, _, _, _, _, _)
CompareLoop(o, n, keys, k, modified, meta_changed) ==
    IF k > Len(keys) THEN [modified |-> modified, meta_changed |-> meta_changed]
    ELSE LET rel == keys[k]
         IN  IF o[rel].sha256 # n[rel].sha256
                 THEN CompareLoop(o, n, keys, k + 1, Append(modified, rel), meta_changed)
             ELSE IF o[rel].size # n[rel].size
                     \/ IntTrunc(o[rel].mtime) # IntTrunc(n[rel].mtime)
                 THEN CompareLoop(o, n, keys, k + 1, modified, Append(meta_changed, rel))
             ELSE CompareLoop(o, n, keys, k + 1, modified, meta_changed)

\* compare_snapshots with the else of line 109 lost: a changed digest no longer
\* keeps the size and the time from being looked at
RECURSIVE CompareLoopNoElse(_, _, _, _, _, _)
CompareLoopNoElse(o, n, keys, k, modified, meta_changed) ==
    IF k > Len(keys) THEN [modified |-> modified, meta_changed |-> meta_changed]
    ELSE LET rel  == keys[k]
             m2   == IF o[rel].sha256 # n[rel].sha256
                     THEN Append(modified, rel) ELSE modified
             mc2  == IF o[rel].size # n[rel].size
                        \/ IntTrunc(o[rel].mtime) # IntTrunc(n[rel].mtime)
                     THEN Append(meta_changed, rel) ELSE meta_changed
         IN  CompareLoopNoElse(o, n, keys, k + 1, m2, mc2)

compare_snapshots_NoElse(o, n) ==
    LET both == CompareLoopNoElse(o, n, sorted(DOMAIN o \cap DOMAIN n), 1, <<>>, <<>>)
    IN  [added            |-> sorted(DOMAIN n \ DOMAIN o),
         removed          |-> sorted(DOMAIN o \ DOMAIN n),
         modified         |-> both.modified,
         metadata_changed |-> both.meta_changed]

\* compare_snapshots with the two int() of line 110 lost
RECURSIVE CompareLoopRawTime(_, _, _, _, _, _)
CompareLoopRawTime(o, n, keys, k, modified, meta_changed) ==
    IF k > Len(keys) THEN [modified |-> modified, meta_changed |-> meta_changed]
    ELSE LET rel == keys[k]
         IN  IF o[rel].sha256 # n[rel].sha256
                 THEN CompareLoopRawTime(o, n, keys, k + 1, Append(modified, rel),
                                         meta_changed)
             ELSE IF o[rel].size # n[rel].size \/ o[rel].mtime # n[rel].mtime
                 THEN CompareLoopRawTime(o, n, keys, k + 1, modified,
                                         Append(meta_changed, rel))
             ELSE CompareLoopRawTime(o, n, keys, k + 1, modified, meta_changed)

compare_snapshots_RawTime(o, n) ==
    LET both == CompareLoopRawTime(o, n, sorted(DOMAIN o \cap DOMAIN n), 1, <<>>, <<>>)
    IN  [added            |-> sorted(DOMAIN n \ DOMAIN o),
         removed          |-> sorted(DOMAIN o \ DOMAIN n),
         modified         |-> both.modified,
         metadata_changed |-> both.meta_changed]

compare_snapshots(o, n) ==
    LET old_keys == DOMAIN o
        new_keys == DOMAIN n
        both     == CompareLoop(o, n, sorted(old_keys \cap new_keys), 1, <<>>, <<>>)
    IN  [added            |-> sorted(new_keys \ old_keys),
         removed          |-> sorted(old_keys \ new_keys),
         modified         |-> both.modified,
         metadata_changed |-> both.meta_changed]

NoChanges == [added |-> <<>>, removed |-> <<>>, modified |-> <<>>,
              metadata_changed |-> <<>>]

\* The content of a baseline file. form is "absent" (no file), "empty" (opened for
\* writing, nothing written yet), "partial" (part of the text written), "notjson",
\* "notdict" (JSON, but no object), "nofiles" (an object without "files") or
\* "wrapper" ({"created_utc", "schema": 1, "files"}).
BaselineText(form, created_utc, files) ==
    [form |-> form, created_utc |-> created_utc, files |-> files]

AbsentBaseline  == BaselineText("absent", 0, EmptySnapshot)
EmptyBaseline   == BaselineText("empty", 0, EmptySnapshot)

\* json.dumps(payload) of save_baseline
BaselinePayload(snapshot, time) == BaselineText("wrapper", time, snapshot)

\* the text of the payload cut short
PartialBaseline(payload) == BaselineText("partial", payload.created_utc, EmptySnapshot)

\* load_baseline accepting any JSON object: the test for "files" of line 80 lost
load_baseline_AnyObject(text) ==
    IF text.form \in {"wrapper", "nofiles"}
    THEN [ok |-> TRUE, files |-> text.files]
    ELSE [ok |-> FALSE, files |-> EmptySnapshot]

\* load_baseline(path) of an existing file: json.loads raises on what is no JSON,
\* line 81 raises ValueError on what is no object with "files"
load_baseline(text) ==
    IF text.form \in {"empty", "partial", "notjson"}
        THEN [ok |-> FALSE, files |-> EmptySnapshot]
    ELSE IF text.form = "notdict" \/ text.form = "nofiles"
        THEN [ok |-> FALSE, files |-> EmptySnapshot]
    ELSE [ok |-> TRUE, files |-> text.files]

-----------------------------------------------------------------------------
(* reporter.py                                                             *)

\* The report file is a sequence of tokens: "[", ",", "]", "\n", "rec" (one JSON
\* object, a report record) and "x" (anything else).
Tok(t) == [t |-> t, generated_at |-> 0, changes |-> NoChanges]

\* json.dumps(payload) of one record
Rec(payload) ==
    [t |-> "rec", generated_at |-> payload.generated_at, changes |-> payload.changes]

AbsentReport == <<Tok("absent")>>

ReportExists(text) == text # AbsentReport

\* json.dumps(data) of a list of records
RECURSIVE DumpItems(_)
DumpItems(items) ==
    IF items = <<>> THEN <<>>
    ELSE IF Len(items) = 1 THEN <<items[1]>>
    ELSE <<items[1], Tok(",")>> \o DumpItems(Tail(items))

json_dumps(items) == <<Tok("[")>> \o DumpItems(items) \o <<Tok("]")>>

\* the tokens of a text that are no white space
RECURSIVE NoSpace(_)
NoSpace(text) ==
    IF text = <<>> THEN <<>>
    ELSE IF Head(text).t = "\n" THEN NoSpace(Tail(text))
    ELSE <<Head(text)>> \o NoSpace(Tail(text))

\* json.loads(text): one record, a list of records, or an error
json_loads(text) ==
    LET ts    == NoSpace(text)
        inner == SubSeq(ts, 2, Len(ts) - 1)
    IN  IF Len(ts) = 1 /\ ts[1].t = "rec"
            THEN [ok |-> TRUE, list |-> FALSE, items |-> ts]
        ELSE IF /\ Len(ts) >= 2 /\ ts[1].t = "[" /\ ts[Len(ts)].t = "]"
                /\ (Len(inner) = 0 \/ Len(inner) % 2 = 1)
                /\ \A i \in DOMAIN inner :
                      inner[i].t = (IF i % 2 = 1 THEN "rec" ELSE ",")
            THEN [ok |-> TRUE, list |-> TRUE,
                  items |-> [k \in 1..((Len(inner) + 1) \div 2) |-> inner[2 * k - 1]]]
        ELSE [ok |-> FALSE, list |-> FALSE, items |-> <<>>]

\* the file right after save_report opened it for writing: mode "a" keeps the
\* text (or starts an empty file), mode "w" and write_text leave an empty file
ReportOpened(text, append, ndjson) ==
    IF ndjson /\ append /\ ReportExists(text) THEN text ELSE <<>>

\* the file after save_report(changes, root, out, append, ndjson) returned
save_report(text, payload, append, ndjson) ==
    IF ndjson
        THEN ReportOpened(text, append, ndjson) \o <<Rec(payload), Tok("\n")>>
    ELSE IF append /\ ReportExists(text)
        THEN LET prev == json_loads(text)
             IN  IF prev.ok /\ prev.list
                     THEN json_dumps(Append(prev.items, Rec(payload)))
                 ELSE IF prev.ok
                     THEN json_dumps(<<prev.items[1], Rec(payload)>>)
                 ELSE json_dumps(<<Rec(payload)>>)
    ELSE json_dumps(<<Rec(payload)>>)

\* the records a report file holds
RecordsIn(text) == {text[i] : i \in {k \in DOMAIN text : text[k].t = "rec"}}

-----------------------------------------------------------------------------
(* The diff engine on its own: compare_snapshots applied to two snapshots. *)

a_txt == <<"a">>
b_txt == <<"b">>
d_a   == <<"d", "/", "a">>
d_dir == <<"d">>

DiffPaths == {a_txt, b_txt, d_a}

\* the records of the old snapshot and of the new one
DiffOldInfo == {FileInfo(1, 1, m) : m \in {5, 10}}
DiffNewInfo == {FileInfo(h, s, m) : h \in {1, 2}, s \in {1, 2}, m \in {-5, 10, 15}}

SnapshotsOf(paths, infos) ==
    UNION {[keys -> infos] : keys \in SUBSET paths}

Config0 ==
    /\ rootExists = TRUE
    /\ baseline_file = "default"
    /\ ignore_csv = NoString
    /\ fimignore = NoString
    /\ now = 0
    /\ run = 0

InitDiff ==
    /\ Config0
    /\ old \in SnapshotsOf(DiffPaths, DiffOldInfo)
    /\ new \in SnapshotsOf(DiffPaths, DiffNewInfo)
    /\ changes = NoChanges
    /\ pc = "ready"
    /\ tree = EmptySnapshot
    /\ blFile = "none"
    /\ report = "none"
    /\ cmd = "compare_snapshots"
    /\ patterns = <<>>
    /\ pending = "none"
    /\ saved = "none"
    /\ last = "none"

Compare ==
    /\ pc = "ready"
    /\ cmd = "compare_snapshots"
    /\ changes' = compare_snapshots(old, new)
    /\ pc' = "returned"
    /\ UNCHANGED <<rootExists, tree, baseline_file, ignore_csv, fimignore, blFile,
                   report, now, cmd, patterns, old, new, run, pending, saved, last>>

NextDiff == Compare

SpecDiff == InitDiff /\ [][NextDiff]_vars

\* the number of places of the four lists of a ChangeSet that hold path p
Occurrences(cs, p) ==
    Cardinality({i \in DOMAIN cs.added : cs.added[i] = p})
    + Cardinality({i \in DOMAIN cs.removed : cs.removed[i] = p})
    + Cardinality({i \in DOMAIN cs.modified : cs.modified[i] = p})
    + Cardinality({i \in DOMAIN cs.metadata_changed : cs.metadata_changed[i] = p})

Listed(cs) ==
    Range(cs.added) \cup Range(cs.removed) \cup Range(cs.modified)
    \cup Range(cs.metadata_changed)

\* C1: a path of either snapshot is in at most one of the four lists of
\* compare_snapshots(old, new), at most once, and the lists hold no other path.
C1_Partition ==
    pc = "returned" =>
        /\ \A p \in DOMAIN old \cup DOMAIN new : Occurrences(changes, p) <= 1
        /\ Listed(changes) \subseteq DOMAIN old \cup DOMAIN new

\* three of the four lists are filled by one comparison
C1_Witness ==
    /\ pc = "returned"
    /\ changes.added # <<>>
    /\ changes.modified # <<>>
    /\ changes.metadata_changed # <<>>

\* time m, in tenths of a second, lies in whole second s (towards zero)
InWholeSecond(m, s) ==
    IF s > 0 THEN 10 * s <= m /\ m < 10 * s + 10
    ELSE IF s < 0 THEN 10 * s - 10 < m /\ m <= 10 * s
    ELSE -10 < m /\ m < 10

SameWholeSecond(m1, m2) ==
    \E s \in -3..3 : InWholeSecond(m1, s) /\ InWholeSecond(m2, s)

\* q lists exactly the paths of S, in ascending order
AscendingListOf(q, S) ==
    /\ Range(q) = S
    /\ \A i, j \in DOMAIN q : i < j => StrLess(q[i], q[j])

\* C2: compare_snapshots(old, new) is the reference classification: added and
\* removed are the keys of one snapshot only; a key of both is modified iff the
\* digests differ, metadata_changed iff they are equal and the sizes or the whole
\* seconds of the times differ, and listed nowhere otherwise; every list ascends.
C2_Reference ==
    pc = "returned" =>
        LET both == DOMAIN old \cap DOMAIN new
        IN  /\ AscendingListOf(changes.added, DOMAIN new \ DOMAIN old)
            /\ AscendingListOf(changes.removed, DOMAIN old \ DOMAIN new)
            /\ AscendingListOf(changes.modified,
                               {k \in both : old[k].sha256 # new[k].sha256})
            /\ AscendingListOf(changes.metadata_changed,
                               {k \in both :
                                   /\ old[k].sha256 = new[k].sha256
                                   /\ \/ old[k].size # new[k].size
                                      \/ ~SameWholeSecond(old[k].mtime, new[k].mtime)})

\* one file differs in the tenths of its time only and is listed nowhere, while
\* two others are metadata_changed
C2_Witness ==
    /\ pc = "returned"
    /\ Len(changes.metadata_changed) = 2
    /\ \E k \in DOMAIN old \cap DOMAIN new :
          /\ old[k].sha256 = new[k].sha256 /\ old[k].size = new[k].size
          /\ old[k].mtime = 10 /\ new[k].mtime = 15
          /\ k \notin Listed(changes)

-----------------------------------------------------------------------------
(* The snapshot builder on its own: walk_and_hash applied to a directory   *)
(* tree, a pattern list and the outcome of reading each file.              *)

WalkFiles == {a_txt, b_txt, d_a}

\* what stat and sha256_file give for the file at p
WalkEntry(p) ==
    IF p = a_txt THEN File(1, 1, 10)
    ELSE IF p = b_txt THEN File(2, 2, 15)
    ELSE File(1, 1, 20)

\* the trees: any of the files, and the directory d when a file lies in it
WalkTrees ==
    {[p \in fs \cup (IF d_a \in fs THEN {d_dir} ELSE {}) |->
         IF p = d_dir THEN Dir ELSE WalkEntry(p)] : fs \in SUBSET WalkFiles}

PatternPool ==
    {<<"a">>, <<"d", "/", "*">>, <<"?">>, <<"[", "!", "a", "]">>,
     <<"*", "/", "[", "a">>, DEFAULT_BASELINE}

\* the longest pattern list
MaxPatterns == 2

PatternLists == UNION {[1..n -> PatternPool] : n \in 0..MaxPatterns}

InitWalk ==
    /\ Config0
    /\ tree \in WalkTrees
    /\ patterns \in PatternLists
    /\ last \in [{p \in DOMAIN tree : tree[p].kind = "file"} ->
                    {"ok", "nostat", "perm", "gone"}]
    /\ new = EmptySnapshot
    /\ old = EmptySnapshot
    /\ changes = NoChanges
    /\ pc = "ready"
    /\ blFile = "none"
    /\ report = "none"
    /\ cmd = "walk_and_hash"
    /\ pending = "none"
    /\ saved = "none"

\* the outcome of reading every entry of the tree: a directory is not read
FaultOf(listing, fault) ==
    [p \in DOMAIN listing |-> IF p \in DOMAIN fault THEN fault[p] ELSE "ok"]

Walk ==
    /\ pc = "ready"
    /\ cmd = "walk_and_hash"
    /\ LET res == walk_and_hash(tree, patterns, FaultOf(tree, last))
       IN  /\ new' = res.snapshot
           /\ pc' = IF res.raised THEN "raised" ELSE "returned"
    /\ UNCHANGED <<rootExists, tree, baseline_file, ignore_csv, fimignore, blFile,
                   report, now, cmd, patterns, old, changes, run, pending, saved, last>>

NextWalk == Walk

SpecWalk == InitWalk /\ [][NextWalk]_vars

\* some pattern of the list matches the final segment or the whole of path p
Excluded(p, pats) ==
    \E pat \in Range(pats) : fnmatch(PathName(p), pat) \/ fnmatch(p, pat)

Orders(n) == {f \in [1..n -> 1..n] : \A i, j \in 1..n : f[i] = f[j] => i = j}

\* C7: no key of the snapshot of walk_and_hash matches a pattern, by its final
\* segment or as a whole; every readable regular file that matches none is a key;
\* and is_ignored gives the same answer for the patterns in any order.
C7_Exclusion ==
    /\ pc = "returned" =>
          /\ \A k \in DOMAIN new : \A pat \in Range(patterns) :
                ~fnmatch(PathName(k), pat) /\ ~fnmatch(k, pat)
          /\ \A p \in DOMAIN last :
                (last[p] = "ok" /\ ~Excluded(p, patterns)) => p \in DOMAIN new
    /\ \A p \in DOMAIN tree : \A f \in Orders(Len(patterns)) :
          is_ignored(p, [i \in 1..Len(patterns) |-> patterns[f[i]]])
              = is_ignored(p, patterns)

\* a readable file that only the second pattern matches, and only as a whole
\* path, is left out, while another file is a key
C7_Witness ==
    /\ pc = "returned"
    /\ Len(patterns) = 2
    /\ d_a \in DOMAIN last /\ last[d_a] = "ok" /\ d_a \notin DOMAIN new
    /\ ~fnmatch(PathName(d_a), patterns[2]) /\ fnmatch(d_a, patterns[2])
    /\ ~Excluded(d_a, <<patterns[1]>>)
    /\ a_txt \in DOMAIN new

\* C8: a permission error or a vanished file while reading one file does not end
\* the walk: walk_and_hash returns, that file is no key of the snapshot, and every
\* other readable regular file that no pattern excludes is a key with its record.
C8_TransientErrors ==
    /\ pc # "raised"
    /\ pc = "returned" =>
          \A p \in DOMAIN last :
              /\ last[p] # "ok" => p \notin DOMAIN new
              /\ (last[p] = "ok" /\ ~Excluded(p, patterns)) =>
                    /\ p \in DOMAIN new
                    /\ new[p] = FileInfo(tree[p].sha256, tree[p].size, tree[p].mtime)

-----------------------------------------------------------------------------
(* The report sink on its own: save_report called again and again on one   *)
(* destination, in any of its four modes.                                  *)

\* the most save_report calls
MaxReports == 4

NoCommand ==
    [name |-> "none", append |-> FALSE, ndjson |-> FALSE, max_runs |-> 0,
     accept_baseline |-> FALSE]

SomeChanges == [NoChanges EXCEPT !.added = <<a_txt>>]

InitReport ==
    /\ Config0
    /\ report \in {AbsentReport, <<>>, <<Tok("x")>>}
    /\ cmd = NoCommand
    /\ pc = "ready"
    /\ tree = EmptySnapshot
    /\ blFile = "none"
    /\ patterns = <<>>
    /\ old = EmptySnapshot
    /\ new = EmptySnapshot
    /\ changes = NoChanges
    /\ pending = "none"
    /\ saved = "none"
    /\ last = "none"

SaveReport(cs, append, ndjson) ==
    /\ pc = "ready"
    /\ now < MaxReports
    /\ now' = now + 1
    /\ cmd' = [NoCommand EXCEPT !.name = "save_report", !.append = append,
                                !.ndjson = ndjson]
    /\ changes' = cs
    /\ report' = save_report(report, [generated_at |-> now + 1, changes |-> cs],
                             append, ndjson)
    /\ UNCHANGED <<rootExists, tree, baseline_file, ignore_csv, fimignore, blFile,
                   pc, patterns, old, new, run, pending, saved, last>>

NextReport ==
    \E cs \in {NoChanges, SomeChanges}, append \in BOOLEAN, ndjson \in BOOLEAN :
        SaveReport(cs, append, ndjson)

SpecReport == InitReport /\ [][NextReport]_vars

\* C4: a save_report call that is not in overwrite mode leaves every record of
\* the file in the file.
C4_NeverLoses ==
    [][cmd'.append => RecordsIn(report) \subseteq RecordsIn(report')]_vars

-----------------------------------------------------------------------------
(* main.py: the commands init, accept, scan and monitor, run one after the *)
(* other on one root with one set of arguments, while the files under the  *)
(* root change. A save is two steps or three, the open that empties the    *)
(* file and the writes; the report file lies outside the root.             *)

\* the latest time of the clock: the most saves of a behaviour
MaxClock == 2

\* the most runs of one scan command
MaxRuns == 2

bl_json   == <<"b", "l">>
FIMIGNORE == <<".", "f", "i", "m", "i", "g", "n", "o", "r", "e">>

UserFiles == {a_txt, d_a}

\* the states of a.txt: absent, and three versions of it
FileStates == {NoFile, File(1, 1, 10), File(1, 1, 15), File(2, 2, 30)}

\* baseline_path(root, override), relative to the root: NoString when it lies
\* outside the root
baseline_path(override) ==
    IF override = "default" THEN DEFAULT_BASELINE
    ELSE IF override = "inside" THEN bl_json
    ELSE NoString

\* the digest, the size and the time of a baseline file, as a file of the tree
BaselineEntry(text) ==
    IF text.form = "wrapper"
        THEN File(100 + text.created_utc, 2 + Cardinality(DOMAIN text.files),
                  10 * text.created_utc)
    ELSE IF text.form = "partial" THEN File(91, 1, 10 * text.created_utc)
    ELSE IF text.form = "empty" THEN File(90, 0, 0)
    ELSE IF text.form = "notjson" THEN File(92, 1, 0)
    ELSE IF text.form = "notdict" THEN File(93, 1, 0)
    ELSE File(94, 1, 0)

\* root.rglob("*"): the entries under the root
Listing ==
    LET files == {p \in UserFiles : tree[p].kind = "file"}
        dirs  == IF d_a \in files THEN {d_dir} ELSE {}
        base  == IF baseline_path(baseline_file) # NoString /\ blFile.form # "absent"
                 THEN {baseline_path(baseline_file)} ELSE {}
        ign   == IF fimignore # NoString THEN {FIMIGNORE} ELSE {}
    IN  [p \in files \cup dirs \cup base \cup ign |->
            IF p \in files THEN tree[p]
            ELSE IF p \in dirs THEN Dir
            ELSE IF p \in base THEN BaselineEntry(blFile)
            ELSE File(50, Len(fimignore), 0)]

AllReadable == [p \in DOMAIN Listing |-> "ok"]

NoPending == [file |-> "none", baseline |-> AbsentBaseline, report |-> <<>>]

Terminal == {"idle", "done", "fatal", "killed", "stopped"}

\* the --ignore strings and the .fimignore texts of the behaviours
IgnoreArgs == {<<NoString, NoString>>,
               <<NoString, <<" ", "d", "/", "*", ",", " ">>>>,
               <<<<"#", "a", "\n", " ", "b", "l", "\n">>, NoString>>}

\* the baseline that init made at time 0 of the first tree, when there was no
\* baseline and no .fimignore yet and --ignore was not given
FirstBaseline ==
    BaselinePayload([p \in UserFiles |-> FileInfo(1, 1, 10)], 0)

Init ==
    /\ rootExists \in BOOLEAN
    /\ baseline_file \in {"default", "inside", "outside"}
    /\ \E ia \in IgnoreArgs :
          /\ fimignore = IF rootExists THEN ia[1] ELSE NoString
          /\ ignore_csv = ia[2]
    /\ tree = [p \in UserFiles |-> IF rootExists THEN File(1, 1, 10) ELSE NoFile]
    /\ blFile \in {AbsentBaseline, BaselineText("notdict", 0, EmptySnapshot),
                   BaselineText("nofiles", 0, EmptySnapshot), FirstBaseline}
    /\ (~rootExists /\ baseline_file # "outside") => blFile = AbsentBaseline
    /\ report = AbsentReport
    /\ now = 0
    /\ cmd = NoCommand
    /\ pc = "idle"
    /\ patterns = <<>>
    /\ old = EmptySnapshot
    /\ new = EmptySnapshot
    /\ changes = NoChanges
    /\ run = 0
    /\ pending = NoPending
    /\ saved = [blFile |-> blFile, report |-> report]
    /\ last = "other"

\* what every command does first: root.resolve(), _ensure_root_exists(root).
\* saved is what the two files hold when the command starts.
Begin ==
    /\ pc \in Terminal
    /\ saved' = [blFile |-> blFile, report |-> report]
    /\ pending' = NoPending

\* the command ends, in one of the ways of Terminal, and its locals with it; last
\* is "accepted" from the return of an init or an accept to the next change of a
\* file or the end of the next command
Return(how, name) ==
    /\ pc' = how
    /\ cmd' = [NoCommand EXCEPT !.name = name]
    /\ patterns' = <<>>
    /\ old' = EmptySnapshot
    /\ new' = EmptySnapshot
    /\ changes' = NoChanges
    /\ run' = 0
    /\ last' = IF how = "done" /\ name \in {"init", "accept"}
               THEN "accepted" ELSE "other"

\* do_init and do_accept, up to the call of save_baseline
DoInit(name) ==
    /\ Begin
    /\ IF ~rootExists
           THEN Return("fatal", name)
       ELSE LET pats == load_ignore_patterns(fimignore, ignore_csv)
                res  == walk_and_hash(Listing, pats, AllReadable)
            IN  IF res.raised
                    THEN Return("killed", name)
                ELSE /\ now < MaxClock
                     /\ cmd' = [NoCommand EXCEPT !.name = name]
                     /\ patterns' = pats
                     /\ new' = res.snapshot
                     /\ pc' = "save_open"
                     /\ UNCHANGED <<old, changes, run, last>>
    /\ UNCHANGED <<rootExists, tree, baseline_file, ignore_csv, fimignore, blFile,
                   report, now>>

\* do_scan and do_monitor, up to the loop; range(1, max_runs + 1) is empty when
\* --max-runs is 0
DoScan(c) ==
    /\ Begin
    /\ IF ~rootExists
           THEN Return("fatal", c.name)
       ELSE IF blFile.form = "absent"
           THEN Return("fatal", c.name)
       ELSE IF ~load_baseline(blFile).ok
           THEN Return("fatal", c.name)
       ELSE /\ now + c.max_runs + (IF c.accept_baseline THEN 1 ELSE 0) <= MaxClock
            /\ IF c.max_runs = 0 /\ ~c.accept_baseline
                   THEN Return("done", c.name)
               ELSE /\ cmd' = c
                    /\ patterns' = load_ignore_patterns(fimignore, ignore_csv)
                    /\ old' = load_baseline(blFile).files
                    /\ pc' = IF c.max_runs = 0 THEN "save_open" ELSE "walk"
                    /\ UNCHANGED <<new, changes, run, last>>
    /\ UNCHANGED <<rootExists, tree, baseline_file, ignore_csv, fimignore, blFile,
                   report, now>>

ScanCommands ==
    {[name |-> "scan", append |-> ap, ndjson |-> nd, max_runs |-> m,
      accept_baseline |-> ab] :
        ap \in BOOLEAN, nd \in BOOLEAN, m \in 0..MaxRuns, ab \in BOOLEAN}

\* monitor runs until it is interrupted: max_runs counts the one run it needs
MonitorCommands ==
    {[name |-> "monitor", append |-> ap, ndjson |-> nd, max_runs |-> 1,
      accept_baseline |-> FALSE] : ap \in BOOLEAN, nd \in BOOLEAN}

\* ScanRun comparing every run with the loaded baseline
ScanRun_AgainstBaseline ==
    /\ pc = "walk"
    /\ now < MaxClock
    /\ LET res == walk_and_hash(Listing, patterns, AllReadable)
       IN  IF res.raised
               THEN Return("killed", cmd.name)
           ELSE /\ new' = res.snapshot
                /\ changes' = compare_snapshots(load_baseline(saved.blFile).files,
                                                res.snapshot)
                /\ run' = run + 1
                /\ pc' = "report_open"
                /\ UNCHANGED <<cmd, patterns, old, last>>
    /\ UNCHANGED <<rootExists, tree, baseline_file, ignore_csv, fimignore, blFile,
                   report, now, pending, saved>>

\* one run of the loop, up to the call of save_report
ScanRun ==
    /\ pc = "walk"
    /\ now < MaxClock
    /\ LET res == walk_and_hash(Listing, patterns, AllReadable)
       IN  IF res.raised
               THEN Return("killed", cmd.name)
           ELSE /\ new' = res.snapshot
                /\ changes' = compare_snapshots(old, res.snapshot)
                /\ run' = run + 1
                /\ pc' = "report_open"
                /\ UNCHANGED <<cmd, patterns, old, last>>
    /\ UNCHANGED <<rootExists, tree, baseline_file, ignore_csv, fimignore, blFile,
                   report, now, pending, saved>>

\* save_report, up to the file being open
ReportOpen ==
    /\ pc = "report_open"
    /\ now' = now + 1
    /\ pending' = [NoPending EXCEPT
                      !.file = "report",
                      !.report = save_report(report,
                                             [generated_at |-> now + 1,
                                              changes |-> changes],
                                             cmd.append, cmd.ndjson)]
    /\ report' = ReportOpened(report, cmd.append, cmd.ndjson)
    /\ pc' = "report_write"
    /\ UNCHANGED <<rootExists, tree, baseline_file, ignore_csv, fimignore, blFile,
                   cmd, patterns, old, new, changes, run, saved, last>>

\* ReportWrite without the old = new of line 133
ReportWrite_NoRoll ==
    /\ pc = "report_write"
    /\ report' = pending.report
    /\ IF cmd.name = "monitor" \/ run < cmd.max_runs
           THEN /\ pc' = "sleep"
                /\ UNCHANGED <<cmd, patterns, old, new, changes, run, last>>
       ELSE IF cmd.accept_baseline
           THEN /\ pc' = "save_open"
                /\ UNCHANGED <<cmd, patterns, old, new, changes, run, last>>
       ELSE Return("done", cmd.name)
    /\ UNCHANGED <<rootExists, tree, baseline_file, ignore_csv, fimignore, blFile,
                   now, pending, saved>>

\* save_report writes and returns; old = new; the loop goes on or ends
ReportWrite ==
    /\ pc = "report_write"
    /\ report' = pending.report
    /\ IF cmd.name = "monitor" \/ run < cmd.max_runs
           THEN /\ pc' = "sleep"
                /\ old' = new
                /\ UNCHANGED <<cmd, patterns, new, changes, run, last>>
       ELSE IF cmd.accept_baseline
           THEN /\ pc' = "save_open"
                /\ old' = new
                /\ UNCHANGED <<cmd, patterns, new, changes, run, last>>
       ELSE Return("done", cmd.name)
    /\ UNCHANGED <<rootExists, tree, baseline_file, ignore_csv, fimignore, blFile,
                   now, pending, saved>>

\* time.sleep(interval)
Sleep ==
    /\ pc = "sleep"
    /\ pc' = "walk"
    /\ UNCHANGED <<rootExists, tree, baseline_file, ignore_csv, fimignore, blFile,
                   report, now, cmd, patterns, old, new, changes, run, pending,
                   saved, last>>

\* save_baseline, up to the file being open: write_text opens with mode "w"
SaveOpen ==
    /\ pc = "save_open"
    /\ now' = now + 1
    /\ pending' = [NoPending EXCEPT
                      !.file = "baseline",
                      !.baseline = BaselinePayload(IF cmd.name = "scan" THEN old
                                                   ELSE new, now + 1)]
    /\ blFile' = EmptyBaseline
    /\ pc' = "save_write"
    /\ UNCHANGED <<rootExists, tree, baseline_file, ignore_csv, fimignore, report,
                   cmd, patterns, old, new, changes, run, saved, last>>

\* the first part of a text longer than the buffer reaches the file
SaveWritePart ==
    /\ pc = "save_write"
    /\ blFile = EmptyBaseline
    /\ blFile' = PartialBaseline(pending.baseline)
    /\ UNCHANGED <<rootExists, tree, baseline_file, ignore_csv, fimignore, report,
                   now, cmd, patterns, old, new, changes, run, pending, saved,
                   pc, last>>

\* the text is written and the file closed: save_baseline returns, and the
\* command with it
SaveWrite ==
    /\ pc = "save_write"
    /\ blFile' = pending.baseline
    /\ Return("done", cmd.name)
    /\ UNCHANGED <<rootExists, tree, baseline_file, ignore_csv, fimignore, report,
                   now, pending, saved>>

\* KeyboardInterrupt: do_monitor catches it around the whole cycle and returns,
\* the other commands end with it
Interrupt ==
    /\ pc \notin Terminal
    /\ Return(IF cmd.name = "monitor" THEN "stopped" ELSE "killed", cmd.name)
    /\ UNCHANGED <<rootExists, tree, baseline_file, ignore_csv, fimignore, blFile,
                   report, now, pending, saved>>

\* somebody creates, writes, touches or removes a.txt. The steps of a command
\* between two walks do not read the tree, so a change counts from the next sleep
\* or the end of the command.
FileChanges(e) ==
    /\ rootExists
    /\ pc \in Terminal \cup {"sleep"}
    /\ tree[a_txt] # e
    /\ tree' = [tree EXCEPT ![a_txt] = e]
    /\ last' = "other"
    /\ UNCHANGED <<rootExists, baseline_file, ignore_csv, fimignore, blFile,
                   report, now, cmd, pc, patterns, old, new, changes, run, pending,
                   saved>>

Next ==
    \/ \E name \in {"init", "accept"} : DoInit(name)
    \/ \E c \in ScanCommands \cup MonitorCommands : DoScan(c)
    \/ ScanRun
    \/ ReportOpen
    \/ ReportWrite
    \/ Sleep
    \/ SaveOpen
    \/ SaveWritePart
    \/ SaveWrite
    \/ Interrupt
    \/ \E e \in FileStates : FileChanges(e)

Spec == Init /\ [][Next]_vars

\* C3: the one scan that follows an init or an accept, with the same arguments
\* and no file changed in between, finds no change.
C3_AcceptThenScan ==
    (cmd.name = "scan" /\ run = 1 /\ pc = "report_open" /\ last = "accepted")
        => changes = NoChanges

\* C5: a reader of the baseline file sees the baseline as it was when the command
\* started or the whole of the one save_baseline is writing, at any time.
C5_AtomicSave ==
    \/ blFile = saved.blFile
    \/ pending.file = "baseline" /\ blFile = pending.baseline

\* C6: wherever under the root the baseline file lies, the patterns of a command
\* exclude it, and it is no key of a snapshot and in no list of a ChangeSet.
C6_NeverSelfMonitors ==
    baseline_path(baseline_file) # NoString =>
        /\ pc \notin Terminal => Excluded(baseline_path(baseline_file), patterns)
        /\ baseline_path(baseline_file) \notin
               DOMAIN new \cup DOMAIN old \cup Listed(changes)

\* C9: a command given a root that does not exist, and a scan or a monitor given
\* a baseline file that is missing or no wrapper with "files", ends with an error
\* before it walks, and the baseline file and the report file are as they were.
C9_FatalNoSideEffects ==
    /\ (pc # "idle" /\ ~rootExists) => pc = "fatal"
    /\ (cmd.name \in {"scan", "monitor"} /\ saved.blFile.form # "wrapper")
           => pc = "fatal"
    /\ pc = "fatal" => blFile = saved.blFile /\ report = saved.report

\* a scan or a monitor ends with an error on the baseline that an interrupted
\* accept left half written, and the report of an earlier scan is as it was
C9_Witness ==
    /\ pc = "fatal"
    /\ rootExists
    /\ cmd.name \in {"scan", "monitor"}
    /\ blFile.form = "partial"
    /\ ReportExists(report)

\* C10: when monitor has stopped on KeyboardInterrupt, the save_report it had
\* begun has written its text, and the baseline file is as it was.
C10_CancelCompletesWrite ==
    pc = "stopped" =>
        /\ pending.file = "report" => report = pending.report
        /\ blFile = saved.blFile

\* C11: monitor never writes the baseline file, and neither does a scan without
\* --accept-baseline; a scan with it writes the file in one save_baseline only,
\* begun after the report of the last run is written, and the "files" of the file
\* it leaves are the snapshot of the last run (the loaded baseline when
\* --max-runs is 0 and there was no run).
C11_ReadOnlyBaseline ==
    [][(pc \notin Terminal /\ cmd.name \in {"scan", "monitor"}) =>
          /\ (cmd.name = "monitor" \/ ~cmd.accept_baseline) => blFile' = blFile
          /\ blFile' # blFile =>
                /\ pc \in {"save_open", "save_write"}
                /\ run = cmd.max_runs
                /\ pc = "save_open" => blFile = saved.blFile
          /\ (pc = "save_write" /\ pc' = "done") =>
                /\ blFile'.form = "wrapper"
                /\ blFile'.files = IF run >= 1 THEN new
                                   ELSE load_baseline(saved.blFile).files]_vars

\* a scan of one run with --accept-baseline has returned, and the baseline file
\* holds other files than the baseline it loaded
C11_Witness ==
    /\ pc = "done"
    /\ cmd.name = "scan"
    /\ pending.file = "baseline"
    /\ blFile = pending.baseline
    /\ saved.blFile.form = "wrapper"
    /\ blFile.files # saved.blFile.files

NoInfo == FileInfo(-1, -1, -1)

\* the record of path p in a snapshot, and the record a walk would make of p now
Recorded(snapshot, p) == IF p \in DOMAIN snapshot THEN snapshot[p] ELSE NoInfo
Current(p) ==
    IF p \in DOMAIN Listing /\ Listing[p].kind = "file"
                             /\ ~is_ignored(p, patterns)
    THEN FileInfo(Listing[p].sha256, Listing[p].size, Listing[p].mtime)
    ELSE NoInfo

\* C12: the ChangeSet of the first run of a scan or a monitor is the comparison
\* of the loaded baseline with the first snapshot, the ChangeSet of a later run
\* the comparison of the snapshot of the run before with the new one; a later
\* run lists only paths whose file is no longer as the run before recorded it,
\* and lists nothing when every file is as recorded.
C12_Rolling ==
    [][(pc = "walk" /\ pc' = "report_open") =>
          /\ run = 0 =>
                changes' = compare_snapshots(load_baseline(blFile).files, new')
          /\ run >= 1 =>
                /\ changes' = compare_snapshots(new, new')
                /\ \A p \in Listed(changes') : Recorded(new, p) # Current(p)
                /\ (\A p \in DOMAIN new \cup DOMAIN Listing :
                        Recorded(new, p) = Current(p)) => changes' = NoChanges]_vars

\* the second run of a command reports nothing, after a first run that found the
\* tree other than the baseline
C12_Witness ==
    /\ pc = "report_open"
    /\ run = 2
    /\ changes = NoChanges
    /\ old # load_baseline(saved.blFile).files

=============================================================================
